---- MODULE Spec2Model ----
(***************************************************************************)
(* Kasoti Book Oracle (app.py): the mode classifier                        *)
(* detect_mode_and_clean_text, the dispatcher query_groq and the two       *)
(* session handlers respond and clear_chat wired to the Gradio widgets.    *)
(*                                                                         *)
(* Text is a sequence of one-character strings, so that strip, lower,      *)
(* startswith, split and the substring test `k in low` are computed        *)
(* character by character as Python computes them.                         *)
(*                                                                         *)
(* The handlers of a session run one at a time (each runs to its return    *)
(* before the next event of the session is served), so each handler is one *)
(* action.  requests.post is the environment: it raises, or it returns a   *)
(* status code and a body.  model_name, temperature and max_tokens are     *)
(* copied from the widgets into the payload and read nowhere else; they    *)
(* are left out of the payload modelled here.                              *)
(***************************************************************************)
EXTENDS Integers, Sequences, FiniteSets

VARIABLES
  GROQ_API_KEY,     \* the credential read from the environment at start-up
  mode,             \* value of the "Bot Mode" dropdown
  state,            \* gr.State: the conversation history of the session
  message,          \* respond: argument message (the textbox content)
  current_mode,     \* respond: argument current_mode (dropdown at submit)
  new_mode,         \* respond: resolved mode of the last call
  cleaned_message,  \* respond: cleaned text of the last call
  reply,            \* respond: value returned by query_groq in the last call
  posts,            \* payloads handed to requests.post during the last call
  response,         \* what requests.post produced in the last call
  event,            \* the handler that ran last
  turns             \* number of respond calls since start / last clear

vars == << GROQ_API_KEY, mode, state, message, current_mode, new_mode,
           cleaned_message, reply, posts, response, event, turns >>

-----------------------------------------------------------------------------
(* Bounds *)

\* number of tokens a typed text is assembled from
MaxTokens == 3

\* number of turns explored between two clears
MaxTurns == 2

-----------------------------------------------------------------------------
(* Python string primitives on character sequences *)

UpperChars == << "A","B","C","D","E","F","G","H","I","J","K","L","M",
                 "N","O","P","Q","R","S","T","U","V","W","X","Y","Z" >>

LowerChars == << "a","b","c","d","e","f","g","h","i","j","k","l","m",
                 "n","o","p","q","r","s","t","u","v","w","x","y","z" >>

\* characters str.strip() removes
Whitespace == { " ", "\t", "\n", "\r", "\f" }

\* the case mapping of str.lower() on the letters A-Z
CaseMap ==
  [c \in { UpperChars[i] : i \in 1..Len(UpperChars) } |->
     LowerChars[CHOOSE i \in 1..Len(UpperChars) : UpperChars[i] = c]]

LowerChar(c) == IF c \in DOMAIN CaseMap THEN CaseMap[c] ELSE c

\* str.lower()
lower(s) == [i \in 1..Len(s) |-> LowerChar(s[i])]

RECURSIVE lstrip(_)
lstrip(s) ==
  IF s # << >> /\ Head(s) \in Whitespace THEN lstrip(Tail(s)) ELSE s

RECURSIVE rstrip(_)
rstrip(s) ==
  IF s # << >> /\ s[Len(s)] \in Whitespace
    THEN rstrip(SubSeq(s, 1, Len(s) - 1)) ELSE s

\* str.strip()
strip(s) == rstrip(lstrip(s))

\* str.startswith(p)
startswith(s, p) ==
  /\ Len(p) <= Len(s)
  /\ \A i \in 1..Len(p) : s[i] = p[i]

\* k in s  (substring test)
contains(s, k) ==
  \E i \in 1..(Len(s) - Len(k) + 1) : \A j \in 1..Len(k) : s[i + j - 1] = k[j]

\* s.split(":", 1): at most one split, at the first colon
split_colon_1(s) ==
  LET colons == { i \in 1..Len(s) : s[i] = ":" }
  IN  IF colons = {} THEN << s >>
      ELSE LET c == CHOOSE i \in colons : \A j \in colons : i <= j
           IN  << SubSeq(s, 1, c - 1), SubSeq(s, c + 1, Len(s)) >>

-----------------------------------------------------------------------------
(* detect_mode_and_clean_text *)

Modes == { "Clue Mode", "Quiz Mode", "Study Mode" }

QuizPrefix  == <<"q", "u", "i", "z", " ", "m", "o", "d", "e", ":">>
CluePrefix  == <<"c", "l", "u", "e", " ", "m", "o", "d", "e", ":">>
StudyPrefix == <<"s", "t", "u", "d", "y", " ", "m", "o", "d", "e", ":">>

quiz_keywords ==
  << <<"m", "c", "q">>,
    <<"m", "c", "q", "s">>,
    <<"q", "u", "i", "z">>,
    <<"m", "u", "l", "t", "i", "p", "l", "e", " ", "c", "h", "o", "i", "c", "e">>,
    <<"o", "b", "j", "e", "c", "t", "i", "v", "e">>,
    <<"t", "e", "s", "t", " ", "m", "e">>,
    <<"c", "h", "o", "o", "s", "e", " ", "t", "h", "e", " ", "c", "o", "r", "r", "e", "c", "t">>,
    <<"c", "h", "o", "o", "s", "e", " ", "t", "h", "e", " ", "r", "i", "g", "h", "t">>,
    <<"o", "p", "t", "i", "o", "n", "s">>,
    <<"a", ")">>,
    <<"b", ")">>,
    <<"c", ")">>,
    <<"d", ")">> >>

study_keywords ==
  << <<"s", "u", "m", "m", "a", "r", "y">>,
    <<"s", "u", "m", "m", "a", "r", "i", "z", "e">>,
    <<"e", "x", "p", "l", "a", "i", "n">>,
    <<"n", "o", "t", "e", "s">>,
    <<"k", "e", "y", " ", "p", "o", "i", "n", "t", "s">>,
    <<"s", "t", "u", "d", "y">>,
    <<"r", "e", "v", "i", "s", "i", "o", "n">>,
    <<"o", "v", "e", "r", "v", "i", "e", "w">>,
    <<"t", "h", "e", "m", "e">>,
    <<"t", "h", "e", "m", "e", "s">>,
    <<"p", "l", "o", "t">>,
    <<"c", "h", "a", "r", "a", "c", "t", "e", "r", "s">>,
    <<"a", "u", "t", "h", "o", "r">>,
    <<"g", "e", "n", "r", "e">> >>

clue_keywords ==
  << <<"c", "l", "u", "e">>,
    <<"c", "l", "u", "e", "s">>,
    <<"h", "i", "n", "t">>,
    <<"h", "i", "n", "t", "s">>,
    <<"g", "u", "e", "s", "s">>,
    <<"k", "a", "s", "o", "t", "i">>,
    <<"d", "o", "n", "'", "t", " ", "r", "e", "v", "e", "a", "l">>,
    <<"d", "o", "n", "t", " ", "r", "e", "v", "e", "a", "l">>,
    <<"n", "e", "x", "t", " ", "c", "l", "u", "e">>,
    <<"h", "a", "r", "d", "e", "r", " ", "c", "l", "u", "e">>,
    <<"r", "e", "v", "e", "a", "l">> >>

\* variant of score: every occurrence of a keyword counts
score_occurrences(keywords, low) ==
  Cardinality({ ip \in (1..Len(keywords)) \X (1..Len(low)) :
                  startswith(SubSeq(low, ip[2], Len(low)), keywords[ip[1]]) })

\* sum(1 for k in keywords if k in low), keywords a Python list
score(keywords, low) ==
  Cardinality({ i \in 1..Len(keywords) : contains(low, keywords[i]) })

\* max(a, b, c)
max3(a, b, c) ==
  IF a >= b /\ a >= c THEN a ELSE IF b >= c THEN b ELSE c

\* variant of the keyword branch: without a keyword the mode falls back to
\* the default mode instead of the current one
keyword_branch_default_clue(t, low, cur) ==
  LET quiz_score  == score(quiz_keywords, low)
      study_score == score(study_keywords, low)
      clue_score  == score(clue_keywords, low)
      best        == max3(quiz_score, study_score, clue_score)
  IN  IF best = 0 THEN [mode |-> "Clue Mode", text |-> t]
      ELSE IF quiz_score = best THEN [mode |-> "Quiz Mode", text |-> t]
      ELSE IF study_score = best THEN [mode |-> "Study Mode", text |-> t]
      ELSE [mode |-> "Clue Mode", text |-> t]

\* variant of the keyword branch: the lower-cased text is returned
keyword_branch_returns_low(t, low, cur) ==
  LET quiz_score  == score(quiz_keywords, low)
      study_score == score(study_keywords, low)
      clue_score  == score(clue_keywords, low)
      best        == max3(quiz_score, study_score, clue_score)
  IN  IF best = 0 THEN [mode |-> cur, text |-> low]
      ELSE IF quiz_score = best THEN [mode |-> "Quiz Mode", text |-> low]
      ELSE IF study_score = best THEN [mode |-> "Study Mode", text |-> low]
      ELSE [mode |-> "Clue Mode", text |-> low]

\* the keyword branch: lines 57-72
keyword_branch(t, low, cur) ==
  LET quiz_score  == score(quiz_keywords, low)
      study_score == score(study_keywords, low)
      clue_score  == score(clue_keywords, low)
      best        == max3(quiz_score, study_score, clue_score)
  IN  IF best = 0 THEN [mode |-> cur, text |-> t]
      ELSE IF quiz_score = best THEN [mode |-> "Quiz Mode", text |-> t]
      ELSE IF study_score = best THEN [mode |-> "Study Mode", text |-> t]
      ELSE [mode |-> "Clue Mode", text |-> t]

\* variant of the classifier: keywords are scored first and the explicit
\* prefixes are looked at only when no keyword is present
detect_keywords_first(text, cur) ==
  LET t   == strip(text)
      low == lower(t)
      kw  == score(quiz_keywords, low) + score(study_keywords, low)
               + score(clue_keywords, low)
  IN  IF kw > 0 THEN keyword_branch(t, low, cur)
      ELSE IF startswith(low, QuizPrefix)
        THEN [mode |-> "Quiz Mode", text |-> strip(split_colon_1(t)[2])]
      ELSE IF startswith(low, CluePrefix)
        THEN [mode |-> "Clue Mode", text |-> strip(split_colon_1(t)[2])]
      ELSE IF startswith(low, StudyPrefix)
        THEN [mode |-> "Study Mode", text |-> strip(split_colon_1(t)[2])]
      ELSE keyword_branch(t, low, cur)

detect_mode_and_clean_text(text, cur) ==
  LET t   == strip(text)
      low == lower(t)
  IN  IF startswith(low, QuizPrefix)
        THEN [mode |-> "Quiz Mode", text |-> strip(split_colon_1(t)[2])]
      ELSE IF startswith(low, CluePrefix)
        THEN [mode |-> "Clue Mode", text |-> strip(split_colon_1(t)[2])]
      ELSE IF startswith(low, StudyPrefix)
        THEN [mode |-> "Study Mode", text |-> strip(split_colon_1(t)[2])]
      ELSE keyword_branch(t, low, cur)

-----------------------------------------------------------------------------
(* Inputs of the classifier: texts typed as up to MaxTokens tokens *)

Tokens ==
  << <<" ">>,
     <<"Q", "u", "i", "z", " ", "M", "o", "d", "e", ":">>,
     <<"c", "l", "u", "e", " ", "m", "o", "d", "e", ":">>,
     <<"S", "T", "U", "D", "Y", " ", "M", "O", "D", "E", ":">>,
     <<"q", "u", "i", "z">>,
     <<"S", "u", "m", "m", "a", "r", "y">>,
     <<"t", "h", "e", "m", "e", "s">>,
     <<"H", "i", "n", "t">>,
     <<"h", "e", "l", "l", "o">>,
     <<":">> >>

RECURSIVE TextsOfLen(_)
TextsOfLen(n) ==
  IF n = 0 THEN { << >> }
  ELSE { s \o Tokens[i] : s \in TextsOfLen(n - 1), i \in 1..Len(Tokens) }

Texts == UNION { TextsOfLen(n) : n \in 0..MaxTokens }

-----------------------------------------------------------------------------
(* query_groq *)

GROQ_API_URL == "https://api.groq.com/openai/v1/chat/completions"

SYSTEM_PROMPT == "You are \"Kasoti Book Oracle\", a fun and sharp book-guessing mentor. ..."

\* os.environ.get("GROQ_API_KEY"): unset, set to the empty string, or a key
NoneKey == "<None>"

Credentials == { NoneKey, "", "gsk_live" }

\* not GROQ_API_KEY
key_missing(key) == key = NoneKey \/ key = ""

\* Response bodies.  text is r.text; json says whether r.json() parses it;
\* depth is how many of ["choices"], [0], ["message"], ["content"] can be
\* indexed in the parsed document; at depth 4 the content is a JSON string
\* (content_is_str) or JSON null.
Bodies ==
  { [text |-> "<html>Bad Gateway</html>", json |-> FALSE, depth |-> 0,
     content_is_str |-> FALSE, content |-> ""],
    [text |-> "{\"error\":{\"message\":\"rate limit\"}}", json |-> TRUE, depth |-> 0,
     content_is_str |-> FALSE, content |-> ""],
    [text |-> "{\"choices\":[]}", json |-> TRUE, depth |-> 1,
     content_is_str |-> FALSE, content |-> ""],
    [text |-> "{\"choices\":[{}]}", json |-> TRUE, depth |-> 2,
     content_is_str |-> FALSE, content |-> ""],
    [text |-> "{\"choices\":[{\"message\":{}}]}", json |-> TRUE, depth |-> 3,
     content_is_str |-> FALSE, content |-> ""],
    [text |-> "{\"choices\":[{\"message\":{\"content\":null}}]}", json |-> TRUE,
     depth |-> 4, content_is_str |-> FALSE, content |-> ""],
    [text |-> "{\"choices\":[{\"message\":{\"content\":\"Clue 1: ...\"}}]}",
     json |-> TRUE, depth |-> 4, content_is_str |-> TRUE, content |-> "Clue 1: ..."] }

NoBody == [text |-> "", json |-> FALSE, depth |-> 0,
           content_is_str |-> FALSE, content |-> ""]

\* What requests.post(...) can do: raise, or return a response object.
Responses ==
  { [raised |-> TRUE, exc |-> e, status_code |-> 0, body |-> NoBody] :
      e \in { "ConnectionError(...)" } }
  \cup { [raised |-> FALSE, exc |-> "", status_code |-> 200, body |-> b] :
           b \in Bodies }
  \cup { [raised |-> FALSE, exc |-> "", status_code |-> 429, body |-> b] :
           b \in { c \in Bodies : c.json /\ c.depth = 0 } }

NoResponse == [raised |-> FALSE, exc |-> "", status_code |-> 0, body |-> NoBody]

\* r.json()["choices"][0]["message"]["content"]
json_content(body) ==
  IF ~body.json
    THEN [raised |-> TRUE, exc |-> "JSONDecodeError(...)", is_str |-> FALSE, value |-> ""]
  ELSE IF body.depth = 0
    THEN [raised |-> TRUE, exc |-> "KeyError('choices')", is_str |-> FALSE, value |-> ""]
  ELSE IF body.depth = 1
    THEN [raised |-> TRUE, exc |-> "IndexError('list index out of range')",
          is_str |-> FALSE, value |-> ""]
  ELSE IF body.depth = 2
    THEN [raised |-> TRUE, exc |-> "KeyError('message')", is_str |-> FALSE, value |-> ""]
  ELSE IF body.depth = 3
    THEN [raised |-> TRUE, exc |-> "KeyError('content')", is_str |-> FALSE, value |-> ""]
  ELSE [raised |-> FALSE, exc |-> "", is_str |-> body.content_is_str,
        value |-> body.content]

\* The values query_groq returns.  is_str tells a Python str from any other
\* value; the three formatted messages are f-strings / literals.
MissingKeyReply ==
  [kind |-> "missing_key", is_str |-> TRUE, status_code |-> 0,
   text |-> "Missing GROQ_API_KEY. Add it in Hugging Face Space -> Settings -> Secrets."]

GroqErrorReply(status_code, text) ==
  [kind |-> "groq_error", is_str |-> TRUE, status_code |-> status_code, text |-> text]

RequestFailedReply(exc) ==
  [kind |-> "request_failed", is_str |-> TRUE, status_code |-> 0, text |-> exc]

ContentReply(c) ==
  [kind |-> "content", is_str |-> c.is_str, status_code |-> 0, text |-> c.value]

NoReply == [kind |-> "none", is_str |-> FALSE, status_code |-> 0, text |-> ""]

\* lines 84-85
system_message(md) ==
  [role |-> "system",
   content |-> [prompt |-> SYSTEM_PROMPT, sep |-> "\n\n",
                mode_hint |-> << "Current mode: ", md,
                                 ". Follow the mode rules strongly." >>]]

\* variant of build_messages: the history is sent newest first
build_messages_newest_first(user_message, chat_history, md) ==
  << system_message(md) >>
  \o [i \in 1..Len(chat_history) |->
        [role |-> chat_history[Len(chat_history) + 1 - i].role,
         content |-> chat_history[Len(chat_history) + 1 - i].content]]
  \o << [role |-> "user", content |-> user_message] >>

\* lines 85-90
build_messages(user_message, chat_history, md) ==
  << system_message(md) >>
  \o [i \in 1..Len(chat_history) |->
        [role |-> chat_history[i].role, content |-> chat_history[i].content]]
  \o << [role |-> "user", content |-> user_message] >>

\* lines 99-107: the try block, given what requests.post does
handle_response(resp) ==
  IF resp.raised THEN RequestFailedReply(resp.exc)
  ELSE IF resp.status_code = 200
    THEN LET c == json_content(resp.body)
         IN  IF c.raised THEN RequestFailedReply(c.exc) ELSE ContentReply(c)
  ELSE GroqErrorReply(resp.status_code, resp.body.text)

\* variant of query_groq: a request that fails in transport is sent again
query_groq_retry(user_message, chat_history, md, resp) ==
  IF key_missing(GROQ_API_KEY)
    THEN [reply |-> MissingKeyReply, posts |-> << >>]
  ELSE LET payload == [url |-> GROQ_API_URL,
                       messages |-> build_messages(user_message, chat_history, md)]
       IN  [reply |-> handle_response(resp),
            posts |-> IF resp.raised THEN << payload, payload >>
                      ELSE << payload >>]

\* returns the reply and the list of requests handed to requests.post
query_groq(user_message, chat_history, md, resp) ==
  IF key_missing(GROQ_API_KEY)
    THEN [reply |-> MissingKeyReply, posts |-> << >>]
  ELSE LET payload == [url |-> GROQ_API_URL,
                       messages |-> build_messages(user_message, chat_history, md)]
       IN  [reply |-> handle_response(resp), posts |-> << payload >>]

-----------------------------------------------------------------------------
(* respond, clear_chat and the widgets *)

\* variant of append_turn: a turn that ended in an error is not recorded
append_turn_skip_failed(chat_history, cleaned, rep) ==
  IF rep.kind = "content"
    THEN chat_history \o << [role |-> "user", content |-> cleaned],
                            [role |-> "assistant", content |-> rep] >>
    ELSE chat_history

\* variant of append_turn: the history is rebuilt from the latest turn
append_turn_latest_only(chat_history, cleaned, rep) ==
  << [role |-> "user", content |-> cleaned],
     [role |-> "assistant", content |-> rep] >>

\* lines 118-119
append_turn(chat_history, cleaned, rep) ==
  chat_history \o << [role |-> "user", content |-> cleaned],
                     [role |-> "assistant", content |-> rep] >>

\* variant of respond: the dropdown keeps the mode it had at submit
respond_keeps_mode(msg, chat_history, cur, resp) ==
  LET d == CHOOSE x \in { detect_mode_and_clean_text(msg, cur) } : TRUE
      q == query_groq(d.text, chat_history, d.mode, resp)
  IN  [new_mode |-> d.mode, cleaned_message |-> d.text,
       reply |-> q.reply, posts |-> q.posts,
       state |-> append_turn(chat_history, d.text, q.reply),
       mode |-> cur]

respond(msg, chat_history, cur, resp) ==
  LET d == CHOOSE x \in { detect_mode_and_clean_text(msg, cur) } : TRUE
      q == query_groq(d.text, chat_history, d.mode, resp)
  IN  [new_mode |-> d.mode, cleaned_message |-> d.text,
       reply |-> q.reply, posts |-> q.posts,
       state |-> append_turn(chat_history, d.text, q.reply),
       mode |-> d.mode]

clear_chat == [state |-> << >>, mode |-> "Clue Mode"]

\* texts submitted in the session
Messages ==
  { <<"Q", "u", "i", "z", " ", "M", "o", "d", "e", ":", " ", "g", "i", "v", "e", " ", "m", "e", " ", "5">>,
    <<" ", "h", "e", "l", "l", "o", " ", "t", "h", "e", "r", "e", " ">>,
    <<"G", "i", "v", "e", " ", "m", "e", " ", "H", "I", "N", "T", "S", " ", "p", "l", "e", "a", "s", "e">>,
    <<"S", "u", "m", "m", "a", "r", "i", "z", "e", " ", "t", "h", "e", " ", "p", "l", "o", "t">> }

Init ==
  /\ GROQ_API_KEY \in Credentials
  /\ mode = "Clue Mode"
  /\ state = << >>
  /\ message = << >>
  /\ current_mode = "Clue Mode"
  /\ new_mode = "Clue Mode"
  /\ cleaned_message = << >>
  /\ reply = NoReply
  /\ posts = << >>
  /\ response = NoResponse
  /\ event = "start"
  /\ turns = 0

\* message .. response record the arguments and locals of the respond call
\* that ran last; once another handler runs there is no such call
FrameGone ==
  /\ message' = << >>
  /\ current_mode' = "Clue Mode"
  /\ new_mode' = "Clue Mode"
  /\ cleaned_message' = << >>
  /\ reply' = NoReply
  /\ posts' = << >>
  /\ response' = NoResponse

\* msg.submit(respond, [msg, state, ..., mode], [msg, chatbot, state, mode])
Respond ==
  \E msg \in Messages, resp \in Responses :
    /\ turns < MaxTurns
    /\ \E r \in { respond(msg, state, mode, resp) } :
         /\ message' = msg
         /\ current_mode' = mode
         /\ new_mode' = r.new_mode
         /\ cleaned_message' = r.cleaned_message
         /\ reply' = r.reply
         /\ posts' = r.posts
         /\ response' = IF r.posts = << >> THEN NoResponse ELSE resp
         /\ state' = r.state
         /\ mode' = r.mode
    /\ event' = "respond"
    /\ turns' = turns + 1
    /\ UNCHANGED GROQ_API_KEY

\* clear.click(clear_chat, None, [chatbot, state, mode])
ClearChat ==
  /\ state' = clear_chat.state
  /\ mode' = clear_chat.mode
  /\ event' = "clear"
  /\ turns' = 0
  /\ FrameGone
  /\ UNCHANGED GROQ_API_KEY

\* the user picks another entry of the "Bot Mode" dropdown
SelectMode ==
  \E m \in Modes \ { mode } :
    /\ mode' = m
    /\ event' = "select"
    /\ FrameGone
    /\ UNCHANGED << GROQ_API_KEY, state, turns >>

Next == Respond \/ ClearChat \/ SelectMode

Spec == Init /\ [][Next]_vars

-----------------------------------------------------------------------------
(* The classifier on its own: one text, one current mode, one call *)

InitClassify ==
  /\ GROQ_API_KEY = NoneKey
  /\ mode = "Clue Mode"
  /\ state = << >>
  /\ message \in Texts
  /\ current_mode \in Modes
  /\ new_mode = "Clue Mode"
  /\ cleaned_message = << >>
  /\ reply = NoReply
  /\ posts = << >>
  /\ response = NoResponse
  /\ event = "input"
  /\ turns = 0

Classify ==
  /\ event = "input"
  /\ LET d == detect_mode_and_clean_text(message, current_mode)
     IN  /\ new_mode' = d.mode
         /\ cleaned_message' = d.text
  /\ event' = "classified"
  /\ UNCHANGED << GROQ_API_KEY, mode, state, message, current_mode, reply,
                  posts, response, turns >>

NextClassify == Classify

SpecClassify == InitClassify /\ [][NextClassify]_vars

\* a call of detect_mode_and_clean_text has taken place on
\* (message, current_mode) with result (new_mode, cleaned_message)
Classified == event \in { "classified", "respond" }

-----------------------------------------------------------------------------
(* Vocabulary of the properties *)

PrefixModes ==
  { [prefix |-> QuizPrefix,  mode |-> "Quiz Mode"],
    [prefix |-> CluePrefix,  mode |-> "Clue Mode"],
    [prefix |-> StudyPrefix, mode |-> "Study Mode"] }

\* the trimmed text begins, case-insensitively, with p
BeginsWith(text, p) == startswith(lower(strip(text)), p)

HasExplicitPrefix(text) == \E pm \in PrefixModes : BeginsWith(text, pm.prefix)

\* everything after the first colon of s
AfterFirstColon(s) ==
  LET c == CHOOSE i \in 1..Len(s) :
             s[i] = ":" /\ \A j \in 1..(i - 1) : s[j] # ":"
  IN  [i \in 1..(Len(s) - c) |-> s[c + i]]

\* number of distinct keywords of the list that occur in text, ignoring case
Presence(keywords, text) ==
  LET low == lower(text)
  IN  Cardinality({ k \in { keywords[i] : i \in 1..Len(keywords) } :
                      contains(low, k) })

QuizCount(text)  == Presence(quiz_keywords, text)
StudyCount(text) == Presence(study_keywords, text)
ClueCount(text)  == Presence(clue_keywords, text)

MaxCount(text) ==
  LET counts == { QuizCount(text), StudyCount(text), ClueCount(text) }
  IN  CHOOSE n \in counts : \A m \in counts : n >= m

LeadingOrTrailingSpace(text) ==
  /\ text # << >>
  /\ text[1] \in Whitespace \/ text[Len(text)] \in Whitespace

\* the step is a call of respond
TurnStep == turns' = turns + 1

\* the turn that ran last ended in a reply of the model
Successful(rep) == rep.kind = "content"

-----------------------------------------------------------------------------
(* C1 *)

\* C1: whenever the trimmed input begins, ignoring case, with "quiz mode:",
\* "clue mode:" or "study mode:", the classifier resolves the mode the prefix
\* names and the cleaned text is everything after the first colon, trimmed,
\* for every current mode and whatever keywords the rest contains.
C1_ExplicitPrefix ==
  Classified =>
    \A pm \in PrefixModes :
      BeginsWith(message, pm.prefix) =>
        /\ new_mode = pm.mode
        /\ cleaned_message = strip(AfterFirstColon(strip(message)))

\* a "Quiz Mode:" text carrying clue keywords, classified while the current
\* mode is another one
C1_Witness ==
  /\ Classified
  /\ BeginsWith(message, QuizPrefix)
  /\ ClueCount(message) > QuizCount(message)
  /\ current_mode = "Study Mode"
  /\ new_mode = "Quiz Mode"
  /\ cleaned_message # << >>

(* C2 *)

\* C2: without an explicit prefix and with at least one keyword present, the
\* resolved mode is Quiz if the number of distinct quiz keywords present
\* reaches the maximum of the three presence counts, else Study if the study
\* count reaches it, else Clue; the current mode plays no part.
C2_KeywordPriority ==
  (Classified /\ ~HasExplicitPrefix(message) /\ MaxCount(message) > 0) =>
    new_mode = IF QuizCount(message) = MaxCount(message) THEN "Quiz Mode"
               ELSE IF StudyCount(message) = MaxCount(message) THEN "Study Mode"
               ELSE "Clue Mode"

\* a three-way tie resolved to Quiz while another mode is current
C2_Witness ==
  /\ Classified
  /\ ~HasExplicitPrefix(message)
  /\ QuizCount(message) = 1
  /\ StudyCount(message) = 1
  /\ ClueCount(message) = 1
  /\ current_mode = "Clue Mode"
  /\ new_mode = "Quiz Mode"

(* C3 *)

\* C3: a text with no explicit prefix and no keyword of any set (the empty
\* and the whitespace-only text included) leaves the current mode unchanged
\* and is returned trimmed.
C3_NoSignal ==
  (Classified /\ ~HasExplicitPrefix(message) /\ MaxCount(message) = 0) =>
    /\ new_mode = current_mode
    /\ cleaned_message = strip(message)

\* a whitespace-only text classified while Study is current
C3_Witness ==
  /\ Classified
  /\ message # << >>
  /\ strip(message) = << >>
  /\ current_mode = "Study Mode"
  /\ new_mode = "Study Mode"
  /\ cleaned_message = << >>

(* C7 *)

\* C7 as stated: without an explicit prefix the cleaned text equals the
\* original input text, leading and trailing whitespace included.
C7_Original ==
  (Classified /\ ~HasExplicitPrefix(message)) => cleaned_message = message

\* C7 amended: without an explicit prefix the cleaned text is the original
\* input text with leading and trailing whitespace removed, so it equals the
\* original input exactly when the input has no leading or trailing
\* whitespace.
C7_TrimmedOriginal ==
  (Classified /\ ~HasExplicitPrefix(message)) =>
    /\ cleaned_message = rstrip(lstrip(message))
    /\ (cleaned_message = message) <=> ~LeadingOrTrailingSpace(message)

\* a keyword text with upper-case letters and surrounding whitespace
C7_Witness ==
  /\ Classified
  /\ ~HasExplicitPrefix(message)
  /\ MaxCount(message) > 0
  /\ LeadingOrTrailingSpace(message)
  /\ lower(message) # message
  /\ cleaned_message # message
  /\ cleaned_message # << >>

-----------------------------------------------------------------------------
(* C4 *)

\* C4: a call of query_groq issues no request and returns the fixed
\* missing-credential message when no credential is configured, and issues
\* exactly one request when one is configured, whatever the outcome.
C4_RequestCount ==
  event = "respond" =>
    IF GROQ_API_KEY \in { NoneKey, "" }
      THEN Len(posts) = 0 /\ reply = MissingKeyReply
      ELSE Len(posts) = 1

\* a call with a credential whose request failed in transport
C4_Witness ==
  /\ event = "respond"
  /\ GROQ_API_KEY \notin { NoneKey, "" }
  /\ response.raised
  /\ reply.kind = "request_failed"
  /\ Len(posts) = 1

(* C5 *)

\* C5: after N turns since start or since the last clear, whatever their
\* outcomes, the history has length 2N and its roles alternate user,
\* assistant, ... starting with user.
C5_HistoryShape ==
  /\ Len(state) = 2 * turns
  /\ \A i \in 1..Len(state) :
       state[i].role = IF i % 2 = 1 THEN "user" ELSE "assistant"

\* two turns, the first answered by a non-200 response and the second by a
\* transport failure
C5_Witness ==
  /\ turns = 2
  /\ Len(state) = 4
  /\ state[2].content.kind = "groq_error"
  /\ state[4].content.kind = "request_failed"

(* C6 *)

\* C6: whatever the outbound request produces, query_groq hands a reply
\* string to its caller: a non-200 status gives the string carrying the
\* status code and the raw body, a transport failure or a 200 response whose
\* body is malformed or lacks choices[0].message.content gives the string
\* carrying the failure's description.
C6_AlwaysReplyString ==
  (event = "respond" /\ posts # << >>) =>
    /\ reply.is_str
    /\ (~response.raised /\ response.status_code # 200) =>
         reply = GroqErrorReply(response.status_code, response.body.text)
    /\ response.raised => reply = RequestFailedReply(response.exc)
    /\ (~response.raised /\ response.status_code = 200
          /\ (~response.body.json \/ response.body.depth < 4)) =>
         reply.kind = "request_failed"

(* C8 *)

\* C8: the current mode is always one of the three modes, is Clue at session
\* start, and after every successful turn is the mode the classifier resolves
\* for the turn's message against the mode held before the turn.
C8_ModeFollowsClassifier ==
  /\ mode = "Clue Mode"
  /\ [][ /\ mode' \in Modes
         /\ (TurnStep /\ Successful(reply')) =>
              mode' = detect_mode_and_clean_text(message', mode).mode ]_vars

\* a successful turn that changed the mode without a selection
C8_Witness ==
  /\ event = "respond"
  /\ Successful(reply)
  /\ reply.is_str
  /\ current_mode = "Clue Mode"
  /\ mode = "Quiz Mode"

(* C9 *)

\* C9: the message list sent in a turn is one system message naming the mode
\* resolved for this turn, then the history as it stood before the turn in
\* its order, then the cleaned message of the turn as the final user entry.
C9_OutboundMessages ==
  [][ (TurnStep /\ posts' # << >>) =>
        LET sent == posts'[1].messages
            res  == detect_mode_and_clean_text(message', mode)
        IN  /\ Len(posts') = 1
            /\ Len(sent) = Len(state) + 2
            /\ sent[1] = system_message(res.mode)
            /\ \A i \in 1..Len(state) :
                 /\ sent[i + 1].role = state[i].role
                 /\ sent[i + 1].content = state[i].content
            /\ sent[Len(sent)] = [role |-> "user", content |-> res.text] ]_vars

\* a second turn sent with the first turn as history and a mode that this
\* turn's message changed
C9_Witness ==
  /\ event = "respond"
  /\ Len(state) = 4
  /\ posts # << >>
  /\ Len(posts[1].messages) = 4
  /\ new_mode # current_mode
  /\ posts[1].messages[2] # posts[1].messages[4]

(* C10 *)

\* C10: the conversation is empty at session start and every step either
\* leaves it alone, extends it by one (user, assistant) pair behind the
\* unchanged earlier entries, or is the clear action and empties it.
C10_AppendOrClear ==
  /\ state = << >>
  /\ [][ \/ state' = state
         \/ /\ TurnStep
            /\ Len(state') = Len(state) + 2
            /\ \A i \in 1..Len(state) :
                 /\ state'[i].role = state[i].role
                 /\ state'[i].content = state[i].content
            /\ state'[Len(state) + 1].role = "user"
            /\ state'[Len(state) + 2].role = "assistant"
         \/ /\ event' = "clear"
            /\ state' = << >> ]_vars

\* a conversation extended twice
C10_Witness ==
  /\ event = "respond"
  /\ turns = 2
  /\ Len(state) = 4
  /\ state[1].content # state[3].content

====
